---- MODULE Spec2Model ----
(***************************************************************************)
(* news-analytics-ga4: the GA4 proxy server of src/server/index.js.       *)
(*                                                                         *)
(* The model has two parts.  The server part is the request handling of   *)
(* the five /api routes with the shared response cache, one action per     *)
(* synchronous run of a handler (from one await to the next).  The shaping *)
(* part is the pure row shaping of the realtime handler, run row by row.   *)
(* JavaScript strings are sequences of one-character strings, so that      *)
(* toLowerCase, includes, startsWith, trim and parseInt are computed.      *)
(***************************************************************************)
EXTENDS Integers, Sequences, FiniteSets, TLC

VARIABLES traffic, now, ticks, cache, req, calls, spark, pv, filt

vars == <<traffic, now, ticks, cache, req, calls, spark, pv, filt>>

serverVars == <<traffic, now, ticks, cache, req, calls>>

(***************************************************************************)
(* Bounds of the model.                                                    *)
(***************************************************************************)
\* Identical requests of one burst.
MaxReqs == 3

\* Requests of one polling sequence.
MaxPolls == 2

\* Steps of the clock while the requests are served.
MaxTicks == 1

\* Rows of one realtime report.
MaxRows == 2

(***************************************************************************)
(* JavaScript strings and numbers.                                         *)
(***************************************************************************)
UpperChars == <<"A", "B", "C", "D", "E", "F", "G", "H", "I", "J", "K", "L", "M",
                "N", "O", "P", "Q", "R", "S", "T", "U", "V", "W", "X", "Y", "Z">>

LowerChars == <<"a", "b", "c", "d", "e", "f", "g", "h", "i", "j", "k", "l", "m",
                "n", "o", "p", "q", "r", "s", "t", "u", "v", "w", "x", "y", "z">>

DigitChars == <<"0", "1", "2", "3", "4", "5", "6", "7", "8", "9">>

LowerChar(c) ==
    IF \E i \in 1..26 : UpperChars[i] = c
    THEN LowerChars[CHOOSE i \in 1..26 : UpperChars[i] = c]
    ELSE c

ToLowerCase(s) == [i \in 1..Len(s) |-> LowerChar(s[i])]

StartsWith(s, p) == Len(p) <= Len(s) /\ SubSeq(s, 1, Len(p)) = p

Includes(s, sub) ==
    \E i \in 0..(Len(s) - Len(sub)) : SubSeq(s, i + 1, i + Len(sub)) = sub

IsSpace(c) == c = " "

IsDigit(c) == \E i \in 1..10 : DigitChars[i] = c

DigitVal(c) == (CHOOSE i \in 1..10 : DigitChars[i] = c) - 1

RECURSIVE SkipSpaces(_, _)
SkipSpaces(s, i) ==
    IF i <= Len(s) /\ IsSpace(s[i]) THEN SkipSpaces(s, i + 1) ELSE i

Trim(s) ==
    LET a == SkipSpaces(s, 1)
        b == IF a > Len(s) THEN 0
             ELSE CHOOSE j \in a..Len(s) :
                    /\ ~IsSpace(s[j])
                    /\ \A k \in (j + 1)..Len(s) : IsSpace(s[k])
    IN  IF a > Len(s) THEN <<>> ELSE SubSeq(s, a, b)

\* A JavaScript number: an integer or NaN.
Num(n) == [nan |-> FALSE, n |-> n]

NaN == [nan |-> TRUE, n |-> 0]

RECURSIVE ParseDigits(_, _, _)
ParseDigits(s, i, acc) ==
    IF i <= Len(s) /\ IsDigit(s[i])
    THEN ParseDigits(s, i + 1, acc * 10 + DigitVal(s[i]))
    ELSE acc

\* parseInt(s): leading white space, an optional sign, then the longest run
\* of decimal digits; NaN when there is no digit.
ParseInt(s) ==
    LET a    == SkipSpaces(s, 1)
        neg  == a <= Len(s) /\ s[a] = "-"
        sgn  == a <= Len(s) /\ (s[a] = "-" \/ s[a] = "+")
        d    == IF sgn THEN a + 1 ELSE a
    IN  IF d <= Len(s) /\ IsDigit(s[d])
        THEN Num(IF neg THEN 0 - ParseDigits(s, d, 0) ELSE ParseDigits(s, d, 0))
        ELSE NaN

\* parseInt(v || 0): the empty string is falsy and 0 is parsed in its place.
ParseIntOrZero(v) == IF v = <<>> THEN Num(0) ELSE ParseInt(v)

(***************************************************************************)
(* Realtime shaping: the 30-point sparkline (index.js 110-115).            *)
(***************************************************************************)
\* Values of the minutesAgo dimension and of the activeUsers metric that the
\* realtime report is given to answer with.
MinutesAgoValues ==
    { <<"0">>, <<"0", "0">>, <<"5">>, <<"0", "5">>, <<"2", "9">>, <<"3", "0">>,
      <<"-", "1">>, <<"(", "o", "t", "h", "e", "r", ")">> }

ActiveUsersValues == { <<"0">>, <<"3">>, <<"7">>, <<"1", "2">>, <<>> }

RtRow == [dim : MinutesAgoValues, val : ActiveUsersValues]

MinAgo(row) == ParseInt(row.dim)

InRange(row) == ~MinAgo(row).nan /\ MinAgo(row).n >= 0 /\ MinAgo(row).n < 30

\* A report has one row per value of its dimension: no two rows of a
\* response stand for the same minute.
RtRowsOk(rows) ==
    \A i, j \in 1..Len(rows) :
        i # j => /\ rows[i].dim # rows[j].dim
                 /\ ~(InRange(rows[i]) /\ InRange(rows[j])
                      /\ MinAgo(rows[i]).n = MinAgo(rows[j]).n)

RtRowsInputs ==
    { rows \in UNION { [1..n -> RtRow] : n \in 0..MaxRows } : RtRowsOk(rows) }

SparkIdle == [pc |-> "idle", rows |-> <<>>, i |-> 0, sparkline |-> <<>>]

\* Array(30).fill(0)
SparkFill == [j \in 1..30 |-> Num(0)]

\* The array written in the order of the dimension (index 0 = now).
SparkIndexMirrored(minAgo) == minAgo

\* The index of the array that a row of minAgo minutes ago is written to
\* (0-based, as in the code).
SparkIndex(minAgo) == 29 - minAgo

\* The body of the forEach: one row applied to the array.
SparkApply(sl, row) ==
    IF InRange(row)
    THEN [sl EXCEPT ![SparkIndex(MinAgo(row).n) + 1] = ParseIntOrZero(row.val)]
    ELSE sl

SparkStart ==
    /\ spark.pc = "rows"
    /\ spark' = [spark EXCEPT !.pc = "each", !.i = 0, !.sparkline = SparkFill]
    /\ UNCHANGED <<serverVars, pv, filt>>

SparkEach ==
    /\ spark.pc = "each"
    /\ spark.i < Len(spark.rows)
    /\ spark' = [spark EXCEPT !.i = spark.i + 1,
                              !.sparkline = SparkApply(spark.sparkline,
                                                       spark.rows[spark.i + 1])]
    /\ UNCHANGED <<serverVars, pv, filt>>

SparkEnd ==
    /\ spark.pc = "each"
    /\ spark.i = Len(spark.rows)
    /\ spark' = [spark EXCEPT !.pc = "done"]
    /\ UNCHANGED <<serverVars, pv, filt>>

(***************************************************************************)
(* Realtime shaping: pageviewsPerMin (index.js 117-131).                   *)
(***************************************************************************)
\* Values of today's screenPageViews; <<>> stands for a report without rows
\* (today[1]?.value is undefined).
TotalPvValues == { <<>>, <<"0">>, <<"9", "0">>, <<"1", "2", "0">> }

\* Values of now.getHours() * 60 + now.getMinutes().
MinuteOfDayValues == {0, 1, 60, 1439}

PvIdle ==
    [pc |-> "idle", rows |-> <<>>, total |-> <<>>, minute |-> 0, lastMinRow |-> 0,
     pvPerMin |-> Num(0), totalPv |-> Num(0), mins |-> 1, out |-> Num(0)]

\* rows.find(r => r.dimensionValues[0].value === '0'): the number of the first
\* row whose minutesAgo is the string 0, 0 (undefined) when there is none.
LastMinRow(rows) ==
    IF \E i \in 1..Len(rows) : rows[i].dim = <<"0">>
    THEN CHOOSE i \in 1..Len(rows) :
            /\ rows[i].dim = <<"0">>
            /\ \A j \in 1..(i - 1) : rows[j].dim # <<"0">>
    ELSE 0

\* parseInt(lastMinRow?.metricValues?.[0]?.value || 0)
PvPerMin(rows, i) == IF i = 0 THEN Num(0) ELSE ParseIntOrZero(rows[i].val)

\* Math.max(now.getHours() * 60 + now.getMinutes(), 1)
Mins(minuteOfDay) == IF minuteOfDay > 1 THEN minuteOfDay ELSE 1

\* Math.round(a / b): the nearest integer, a half rounded up; NaN stays NaN.
MathRound(a, b) == IF a.nan THEN NaN ELSE Num((2 * a.n + b) \div (2 * b))

\* x || y on numbers: 0 and NaN are falsy.
OrElse(x, y) == IF x.nan \/ x.n = 0 THEN y ELSE x

\* pageviewsPerMin: pvPerMin || Math.round(totalPv / mins)
PageviewsPerMin(pvPerMin, totalPv, mins) == OrElse(pvPerMin, MathRound(totalPv, mins))

PvFind ==
    /\ pv.pc = "rows"
    /\ pv' = [pv EXCEPT !.pc = "found", !.lastMinRow = LastMinRow(pv.rows)]
    /\ UNCHANGED <<serverVars, spark, filt>>

PvParse ==
    /\ pv.pc = "found"
    /\ pv' = [pv EXCEPT !.pc = "parsed",
                        !.pvPerMin = PvPerMin(pv.rows, pv.lastMinRow),
                        !.totalPv = ParseIntOrZero(pv.total),
                        !.mins = Mins(pv.minute)]
    /\ UNCHANGED <<serverVars, spark, filt>>

PvDerive ==
    /\ pv.pc = "parsed"
    /\ pv' = [pv EXCEPT !.pc = "done",
                        !.out = PageviewsPerMin(pv.pvPerMin, pv.totalPv, pv.mins)]
    /\ UNCHANGED <<serverVars, spark, filt>>

(***************************************************************************)
(* The response cache: node-cache, times in seconds (index.js 11).         *)
(* An entry is [v, t, at]: the stored value, its expiry time (t = 0 for an *)
(* entry that never expires) and, as a history field that no code reads,   *)
(* the time of the set.  The cache is a function on the stored keys.       *)
(***************************************************************************)
KeyRt == <<"r", "t">>

KeyTop10 == <<"t", "o", "p", "1", "0">>

KeyAuthors == <<"a", "u", "t", "h", "o", "r", "s">>

KeyStatePrefix == <<"s", "t", "a", "t", "e", "_">>

\* A JSON payload: the request whose upstream answers it was shaped from,
\* the upstream answers that went into it, and its rows.
NoData == [src |-> 0, parts |-> {}, rows |-> <<>>]

NoEntry == [set |-> FALSE, v |-> NoData, t |-> 0, at |-> 0]

\* The entry stored under k, expired or not, as has() finds it.
RawEntry(c, k) ==
    IF k \in DOMAIN c
    THEN [set |-> TRUE, v |-> c[k].v, t |-> c[k].t, at |-> c[k].at]
    ELSE NoEntry

\* _check: an entry is expired once its expiry time is in the past.
Expired(e, t) == e.t # 0 /\ e.t < t

CacheHas(c, k, t) == k \in DOMAIN c /\ ~Expired(c[k], t)

\* has() deletes the entry it finds expired (deleteOnExpire).
CacheAfterHas(c, k, t) ==
    IF k \in DOMAIN c /\ Expired(c[k], t)
    THEN [x \in DOMAIN c \ {k} |-> c[x]]
    ELSE c

CacheSet(c, k, v, ttl, t) ==
    [x \in DOMAIN c \cup {k} |->
        IF x = k
        THEN [v |-> v, t |-> IF ttl = 0 THEN 0 ELSE t + ttl, at |-> t]
        ELSE c[x]]

\* The periodic check of node-cache: every expired entry is deleted.
CheckData ==
    /\ \E k \in DOMAIN cache : Expired(cache[k], now)
    /\ cache' = [x \in {k \in DOMAIN cache : ~Expired(cache[k], now)} |-> cache[x]]
    /\ UNCHANGED <<traffic, now, ticks, req, calls, spark, pv, filt>>

(***************************************************************************)
(* Requests, responses and the upstream analytics API.                     *)
(***************************************************************************)
Routes == {"realtime", "top-news", "state-news", "top-authors", "ga4-dims"}

\* Values of the :state parameter of /api/state-news/:state.
StateParams ==
    { <<"m", "p">>, <<"M", "P">>, <<"x", "x">>,
      <<"c", "o", "n", "s", "t", "r", "u", "c", "t", "o", "r">> }

\* Messages of the errors the analytics API answers with.
FailMsgs == {"quota exceeded", "invalid credentials"}

\* The top-authors handler never reads the message of a failure
\* (catch (_)): one message stands for all of them there.
SwallowedMsgs == {"invalid credentials"}

OkBody(d) == [error |-> "", data |-> d]

ErrBody(msg) == [error |-> msg, data |-> NoData]

\* One upstream call: the API method, the report asked for, the custom
\* dimension it is asked by (top authors) and its path filter (state news).
Desc(api, name, dim, filter) ==
    [api |-> api, name |-> name, dim |-> dim, filter |-> filter]

\* A request: where its handler stands (pc, pending, found, idx), what was
\* sent (status, body, nresp) and, as history that no code reads: the entry
\* of its key at its arrival (saw), its cache operations (ops), the message
\* of the first upstream failure (upErr), the answer of getMetadata (meta)
\* and the number of candidate answers that held a usable row (hits).
ReqInit ==
    [pc |-> "new", route |-> "none", state |-> <<>>, authed |-> FALSE,
     at |-> 0, status |-> 0, body |-> ErrBody(""), nresp |-> 0,
     pending |-> {}, found |-> <<>>, idx |-> 0,
     saw |-> NoEntry, ops |-> <<>>, upErr |-> "", meta |-> <<>>, hits |-> 0]

\* res.status(s).json(b), after which the handler returns.
Respond(q, s, b) ==
    [q EXCEPT !.pc = "done", !.status = s, !.body = b, !.nresp = @ + 1]

\* A session check that lets every request through.
IsAuthenticatedAlways(q) == TRUE

\* req.isAuthenticated()
IsAuthenticated(q) == q.authed

\* The first upstream failure of a request is remembered.
Failed(q, msg) == [q EXCEPT !.upErr = IF @ = "" THEN msg ELSE @]

\* requireAuth (index.js 42): the response of a request without a session.
Unauthorized(q) == Respond(q, 401, ErrBody("Not authenticated"))

\* The requests arrive in the order of their numbers.
Arrives(r) ==
    /\ r \in DOMAIN req
    /\ req[r].pc = "new"
    /\ \A q \in 1..(r - 1) : req[q].pc # "new"

Arrived(r, route, state, authed) ==
    [req[r] EXCEPT !.route = route, !.state = state, !.authed = authed, !.at = now]

\* The start of a handler of a cached route, up to its first await:
\* requireAuth, then cache.has / cache.get, then the upstream calls.
CachedStart(r, q, k, descs, pend) ==
    IF ~IsAuthenticated(q)
    THEN /\ req' = [req EXCEPT ![r] = Unauthorized(q)]
         /\ UNCHANGED <<cache, calls>>
    ELSE IF CacheHas(cache, k, now)
    THEN /\ req' = [req EXCEPT ![r] =
                      Respond([q EXCEPT !.saw = RawEntry(cache, k),
                                        !.ops = <<"has", "get">>],
                              200, OkBody(cache[k].v))]
         /\ UNCHANGED <<cache, calls>>
    ELSE /\ cache' = CacheAfterHas(cache, k, now)
         /\ req' = [req EXCEPT ![r] =
                      [q EXCEPT !.pc = "waiting", !.pending = pend,
                                !.saw = RawEntry(cache, k), !.ops = <<"has">>]]
         /\ calls' = [calls EXCEPT ![r] = descs]

\* cache.set(k, d, ttl); res.json(d)
StoreAndSend(r, q, k, d, ttl) ==
    /\ cache' = CacheSet(cache, k, d, ttl, now)
    /\ req' = [req EXCEPT ![r] =
                 Respond([q EXCEPT !.ops = Append(@, "set")], 200, OkBody(d))]

\* The error swallowed: an empty list is sent in its place.
SendErrorAsEmpty(r, q, msg) ==
    /\ req' = [req EXCEPT ![r] = Respond(q, 200, OkBody(NoData))]
    /\ UNCHANGED cache

\* The error answer stored under the key of the route, like a payload.
SendErrorStored(r, q, msg) ==
    /\ req' = [req EXCEPT ![r] = Respond(q, 500, ErrBody(msg))]
    /\ cache' = CacheSet(cache,
                         IF q.route = "realtime" THEN KeyRt
                         ELSE IF q.route = "top-news" THEN KeyTop10
                         ELSE KeyStatePrefix \o ToLowerCase(q.state),
                         [src |-> r, parts |-> {}, rows |-> <<>>], 10, now)

\* catch (e) { res.status(500).json({ error: e.message }) }
SendError(r, q, msg) ==
    /\ req' = [req EXCEPT ![r] = Respond(q, 500, ErrBody(msg))]
    /\ UNCHANGED cache

(***************************************************************************)
(* GET /api/realtime (index.js 66-138).                                    *)
(***************************************************************************)
\* The TTL of the five-minute routes given to the realtime entry.
TtlRtLong == 30 * 10

TtlRt == 10

RtParts == {"rtTotal", "rtMinutes", "todayStats", "monthStats"}

RtDescs ==
    << Desc("runRealtimeReport", "rtTotal", <<>>, <<>>),
       Desc("runRealtimeReport", "rtMinutes", <<>>, <<>>),
       Desc("runReport", "todayStats", <<>>, <<>>),
       Desc("runReport", "monthStats", <<>>, <<>>) >>

RealtimeStart(r, authed) ==
    /\ traffic.route = "realtime"
    /\ Arrives(r)
    /\ CachedStart(r, Arrived(r, "realtime", <<>>, authed), KeyRt, RtDescs, RtParts)
    /\ UNCHANGED <<traffic, now, ticks, spark, pv, filt>>

\* Promise.any in place of Promise.all: the first answer fulfils.
PromiseAny(rest) == TRUE

\* Promise.all is fulfilled when no promise of it is pending any more.
PromiseAll(rest) == rest = {}

\* One of the four calls is answered.  A failure rejects Promise.all at once;
\* the last success fulfils it, and the handler shapes, stores and sends.
RealtimeReply(r, c, ok, msg) ==
    /\ r \in DOMAIN req
    /\ req[r].pc = "waiting" /\ req[r].route = "realtime"
    /\ c \in req[r].pending
    /\ LET q == [req[r] EXCEPT !.pending = @ \ {c}]
       IN  IF ~ok
           THEN SendError(r, Failed(q, msg), msg)
           ELSE IF PromiseAll(q.pending)
           THEN StoreAndSend(r, q, KeyRt,
                    [src |-> r, parts |-> RtParts \ q.pending, rows |-> <<>>], TtlRt)
           ELSE /\ req' = [req EXCEPT ![r] = q]
                /\ UNCHANGED cache
    /\ UNCHANGED <<traffic, now, ticks, calls, spark, pv, filt>>

\* A call is answered after Promise.all was rejected: the answer, a success
\* or a failure, is dropped.
RealtimeLateReply(r, c) ==
    /\ r \in DOMAIN req
    /\ req[r].pc = "done" /\ req[r].route = "realtime"
    /\ c \in req[r].pending
    /\ req' = [req EXCEPT ![r].pending = @ \ {c}]
    /\ UNCHANGED <<traffic, now, ticks, cache, calls, spark, pv, filt>>

(***************************************************************************)
(* GET /api/top-news (index.js 141-162).                                   *)
(***************************************************************************)
TtlTop10 == 10

\* The report asked for twice.
Top10DescsTwice ==
    << Desc("runRealtimeReport", "top10", <<>>, <<>>),
       Desc("runRealtimeReport", "top10", <<>>, <<>>) >>

Top10Descs == << Desc("runRealtimeReport", "top10", <<>>, <<>>) >>

TopNewsStart(r, authed) ==
    /\ traffic.route = "top-news"
    /\ Arrives(r)
    /\ CachedStart(r, Arrived(r, "top-news", <<>>, authed), KeyTop10, Top10Descs, {"rows"})
    /\ UNCHANGED <<traffic, now, ticks, spark, pv, filt>>

\* A failed report asked for again.
TopNewsReplyRetry(r, ok, msg) ==
    /\ r \in DOMAIN req
    /\ req[r].pc = "waiting" /\ req[r].route = "top-news"
    /\ IF ok
       THEN /\ StoreAndSend(r, [req[r] EXCEPT !.pending = {}], KeyTop10,
                            [src |-> r, parts |-> {"rows"}, rows |-> <<>>], TtlTop10)
            /\ UNCHANGED calls
       ELSE /\ req' = [req EXCEPT ![r] = Failed(@, msg)]
            /\ calls' = [calls EXCEPT ![r] = @ \o Top10Descs]
            /\ UNCHANGED cache
    /\ UNCHANGED <<traffic, now, ticks, spark, pv, filt>>

TopNewsReply(r, ok, msg) ==
    /\ r \in DOMAIN req
    /\ req[r].pc = "waiting" /\ req[r].route = "top-news"
    /\ LET q == [req[r] EXCEPT !.pending = {}]
       IN  IF ok
           THEN StoreAndSend(r, q, KeyTop10,
                             [src |-> r, parts |-> {"rows"}, rows |-> <<>>], TtlTop10)
           ELSE SendError(r, Failed(q, msg), msg)
    /\ UNCHANGED <<traffic, now, ticks, calls, spark, pv, filt>>

(***************************************************************************)
(* GET /api/state-news/:state (index.js 166-203).                          *)
(***************************************************************************)
TtlState == 300

\* STATE_PATH_MAP[state] || [`/${state}/`]
StatePaths(state) ==
    IF state = <<"m", "p">>
    THEN << <<"/", "m", "p", "/">>,
            <<"/", "s", "t", "a", "t", "e", "/", "m", "a", "d", "h", "y", "a", "-",
              "p", "r", "a", "d", "e", "s", "h", "/">> >>
    ELSE IF state = <<"c", "g">>
    THEN << <<"/", "c", "g", "/">>,
            <<"/", "s", "t", "a", "t", "e", "/", "c", "h", "h", "a", "t", "t", "i",
              "s", "g", "a", "r", "h", "/">> >>
    ELSE IF state = <<"r", "j">>
    THEN << <<"/", "r", "j", "/">>,
            <<"/", "s", "t", "a", "t", "e", "/", "r", "a", "j", "a", "s", "t", "h",
              "a", "n", "/">> >>
    ELSE << <<"/">> \o state \o <<"/">> >>

\* The names that STATE_PATH_MAP, an object literal, inherits from
\* Object.prototype and that a lower-cased string can spell: constructor and
\* __proto__.  The lookup of such a name gives an object that is truthy and is
\* no array, so that paths.map is undefined and calling it throws a TypeError.
InheritedNames ==
    { <<"c", "o", "n", "s", "t", "r", "u", "c", "t", "o", "r">>,
      <<"_", "_", "p", "r", "o", "t", "o", "_", "_">> }

PathsMapThrows(state) == state \in InheritedNames

\* The key without the toLowerCase() of the parameter.
StateKeyRaw(param) == KeyStatePrefix \o param

\* const state = req.params.state.toLowerCase(); const k = `state_${state}`
StateKey(param) == KeyStatePrefix \o ToLowerCase(param)

StateDescs(param) ==
    << Desc("runReport", "stateNews", <<>>,
            StatePaths(ToLowerCase(param))) >>

StateNewsStart(r, param, authed) ==
    /\ traffic.route = "state-news"
    /\ Arrives(r)
    /\ traffic.kind = "burst" => \A q \in 1..(r - 1) : req[q].state = param
    /\ LET q == Arrived(r, "state-news", param, authed)
           k == StateKey(param)
       IN  IF /\ IsAuthenticated(q)
              /\ ~CacheHas(cache, k, now)
              /\ PathsMapThrows(ToLowerCase(param))
           THEN \* paths.map(...) throws before the report is asked for.
                /\ cache' = CacheAfterHas(cache, k, now)
                /\ req' = [req EXCEPT ![r] =
                             Respond([q EXCEPT !.saw = RawEntry(cache, k),
                                               !.ops = <<"has">>],
                                     500, ErrBody("paths.map is not a function"))]
                /\ UNCHANGED calls
           ELSE CachedStart(r, q, k, StateDescs(param), {"rows"})
    /\ UNCHANGED <<traffic, now, ticks, spark, pv, filt>>

StateNewsReply(r, ok, msg) ==
    /\ r \in DOMAIN req
    /\ req[r].pc = "waiting" /\ req[r].route = "state-news"
    /\ LET q == [req[r] EXCEPT !.pending = {}]
       IN  IF ok
           THEN StoreAndSend(r, q, StateKey(q.state),
                             [src |-> r, parts |-> {"rows"}, rows |-> <<>>], TtlState)
           ELSE SendError(r, Failed(q, msg), msg)
    /\ UNCHANGED <<traffic, now, ticks, calls, spark, pv, filt>>

\* The path filter of one state-news request and the answer of the analytics
\* API to it for one page (index.js 173-192).
FilterParams ==
    { <<"m", "p">>,
      <<"M", "P">>,
      <<"c", "g">>,
      <<"C", "g">>,
      <<"r", "j">>,
      <<"R", "J">>,
      <<"x", "x">>,
      <<"s", "t", "a", "t", "e">>,
      <<"c", "o", "n", "s", "t", "r", "u", "c", "t", "o", "r">>,
      <<"_", "_", "p", "r", "o", "t", "o", "_", "_">> }

\* Values of the pagePath dimension of a page.
PagePaths ==
    { <<"/", "s", "t", "a", "t", "e", "/", "m", "a", "d", "h", "y", "a", "-", "p", "r", "a", "d", "e", "s", "h", "/", "f", "o", "o">>,
      <<"/", "c", "g", "/", "f", "o", "o">>,
      <<"/", "m", "p", "/", "b", "a", "r">>,
      <<"/", "n", "e", "w", "s", "/", "m", "p">>,
      <<"/", "s", "t", "a", "t", "e", "/", "r", "a", "j", "a", "s", "t", "h", "a", "n", "/", "x">>,
      <<"/", "x", "x", "/", "a">>,
      <<"/", "M", "P", "/", "F", "o", "o">>,
      <<"/", "c", "o", "n", "s", "t", "r", "u", "c", "t", "o", "r", "/", "x">> }

FiltIdle ==
    [pc |-> "idle", param |-> <<>>, path |-> <<>>, filter |-> <<>>, error |-> "",
     match |-> FALSE]

\* The orGroup of stringFilters on pagePath of matchType CONTAINS, as the
\* analytics API evaluates it: a page passes when its path holds the value of
\* one of the filters, whatever the case (caseSensitive is not set).
OrGroupContains(filter, path) ==
    \E i \in 1..Len(filter) : Includes(ToLowerCase(path), ToLowerCase(filter[i]))

\* The handler from the parameter to the request body of runReport.
FiltBuild ==
    /\ filt.pc = "param"
    /\ filt' = IF PathsMapThrows(ToLowerCase(filt.param))
               THEN [filt EXCEPT !.pc = "thrown", !.error = "paths.map is not a function"]
               ELSE [filt EXCEPT !.pc = "sent", !.filter = StateDescs(filt.param)[1].filter]
    /\ UNCHANGED <<serverVars, spark, pv>>

\* The analytics API applies the filter to the page.
FiltMatch ==
    /\ filt.pc = "sent"
    /\ filt' = [filt EXCEPT !.pc = "done", !.match = OrGroupContains(filt.filter, filt.path)]
    /\ UNCHANGED <<serverVars, spark, pv>>

(***************************************************************************)
(* GET /api/ga4-dims (index.js 266-274).                                   *)
(***************************************************************************)
MetaDesc == Desc("getMetadata", "metadata", <<>>, <<>>)

CustomPrefix == <<"c", "u", "s", "t", "o", "m">>

\* (meta.data.dimensions || []).filter(d => d.apiName && d.apiName.startsWith('custom'))
CustomDims(meta) == SelectSeq(meta, LAMBDA d : StartsWith(d.apiName, CustomPrefix))

Ga4DimsStart(r, authed) ==
    /\ traffic.route = "ga4-dims"
    /\ Arrives(r)
    /\ LET q == Arrived(r, "ga4-dims", <<>>, authed)
       IN  IF ~IsAuthenticated(q)
           THEN /\ req' = [req EXCEPT ![r] = Unauthorized(q)]
                /\ UNCHANGED calls
           ELSE /\ req' = [req EXCEPT ![r] = [q EXCEPT !.pc = "waiting",
                                                       !.pending = {"meta"}]]
                /\ calls' = [calls EXCEPT ![r] = <<MetaDesc>>]
    /\ UNCHANGED <<traffic, now, ticks, cache, spark, pv, filt>>

Ga4DimsReply(r, ok, meta, msg) ==
    /\ r \in DOMAIN req
    /\ req[r].pc = "waiting" /\ req[r].route = "ga4-dims"
    /\ LET q == [req[r] EXCEPT !.pending = {}]
       IN  IF ok
           THEN /\ req' = [req EXCEPT ![r] =
                             Respond(q, 200, OkBody([src |-> r, parts |-> {"meta"},
                                                     rows |-> CustomDims(meta)]))]
                /\ UNCHANGED cache
           ELSE SendError(r, Failed(q, msg), msg)
    /\ UNCHANGED <<traffic, now, ticks, calls, spark, pv, filt>>

(***************************************************************************)
(* GET /api/top-authors (index.js 207-263).                                *)
(***************************************************************************)
TtlAuthors == 300

Guesses ==
    << <<"c", "u", "s", "t", "o", "m", "U", "s", "e", "r", ":", "a", "u", "t", "h", "o", "r">>,
       <<"c", "u", "s", "t", "o", "m", "E", "v", "e", "n", "t", ":", "a", "u", "t", "h", "o", "r">>,
       <<"c", "u", "s", "t", "o", "m", "U", "s", "e", "r", ":", "A", "u", "t", "h", "o", "r">>,
       <<"c", "u", "s", "t", "o", "m", "E", "v", "e", "n", "t", ":", "A", "u", "t", "h", "o", "r">>,
       <<"c", "u", "s", "t", "o", "m", "U", "s", "e", "r", ":", "w", "r", "i", "t", "e", "r">>,
       <<"c", "u", "s", "t", "o", "m", "E", "v", "e", "n", "t", ":", "w", "r", "i", "t", "e", "r">> >>

\* Answers of getMetadata: lists of dimensions {apiName, uiName, description}.
Dim(apiName, uiName, description) ==
    [apiName |-> apiName, uiName |-> uiName, description |-> description]

DimDate == Dim(<<"d", "a", "t", "e">>, <<"A", "u", "t", "h", "o", "r", "e", "d">>, <<>>)

DimSection ==
    Dim(<<"c", "u", "s", "t", "o", "m", "E", "v", "e", "n", "t", ":", "s", "e", "c", "t", "i", "o", "n">>,
        <<"S", "e", "c", "t", "i", "o", "n">>, <<>>)

DimByline ==
    Dim(<<"c", "u", "s", "t", "o", "m", "E", "v", "e", "n", "t", ":", "b", "y", "l", "i", "n", "e", "_", "t", "e", "s", "t">>,
        <<>>, <<>>)

DimStaff ==
    Dim(<<"c", "u", "s", "t", "o", "m", "U", "s", "e", "r", ":", "s", "t", "a", "f", "f">>,
        <<"S", "t", "o", "r", "y", " ", "W", "r", "i", "t", "e", "r">>, <<>>)

MetaInputs == { <<DimDate, DimSection>>, <<DimByline>>, <<DimSection, DimStaff, DimByline>> }

\* The text of a dimension that is searched: apiName, uiName and description
\* joined by blanks, in lower case.
DimText(d) == ToLowerCase(d.apiName \o <<" ">> \o d.uiName \o <<" ">> \o d.description)

IsAuthorDim(d) ==
    \/ Includes(DimText(d), <<"a", "u", "t", "h", "o", "r">>)
    \/ Includes(DimText(d), <<"w", "r", "i", "t", "e", "r">>)
    \/ Includes(DimText(d), <<"b", "y", "l", "i", "n", "e">>)

\* customDims.find(...): the apiName of the first custom dimension that reads
\* as an author, <<>> (null) when there is none.
FindAuthorDim(meta) ==
    LET hits == SelectSeq(CustomDims(meta), IsAuthorDim)
    IN  IF hits = <<>> THEN <<>> ELSE hits[1].apiName

\* const dimsToTry = foundDim ? [foundDim] : [...guesses]
DimsToTry(found) == IF found # <<>> THEN <<found>> ELSE Guesses

\* Answers of the report by a candidate dimension: the values of the
\* dimension, in the order of the rows.
NameNotSet == <<"(", "n", "o", "t", " ", "s", "e", "t", ")">>

NameNotProvided == <<"(", "n", "o", "t", " ", "p", "r", "o", "v", "i", "d", "e", "d", ")">>

AuthorRowsInputs ==
    { <<>>,
      <<NameNotSet, <<" ", " ">>, NameNotProvided, <<>> >>,
      <<NameNotSet, <<"A", "s", "h", "a">> >> }

\* n && n !== '(not set)' && n !== '(not provided)' && n.trim() !== ''
IsRealName(n) ==
    /\ n # <<>>
    /\ n # NameNotSet
    /\ n # NameNotProvided
    /\ Trim(n) # <<>>

\* tryDimension: filter, slice(0, 6), rank.
ShapeAuthors(names) ==
    LET kept == SelectSeq(names, IsRealName)
        top  == SubSeq(kept, 1, IF Len(kept) < 6 THEN Len(kept) ELSE 6)
    IN  [i \in 1..Len(top) |-> [rank |-> i, name |-> top[i]]]

AuthorDesc(dim) == Desc("runReport", "authors", dim, <<>>)

TopAuthorsStart(r, authed) ==
    /\ traffic.route = "top-authors"
    /\ Arrives(r)
    /\ CachedStart(r, Arrived(r, "top-authors", <<>>, authed), KeyAuthors,
                   <<MetaDesc>>, {"meta"})
    /\ UNCHANGED <<traffic, now, ticks, spark, pv, filt>>

\* getMetadata is answered: the failure is swallowed (catch (_) {}), the
\* candidates are fixed and the first of them is queried.
AuthorsMetaReply(r, ok, meta, msg) ==
    /\ r \in DOMAIN req
    /\ req[r].pc = "waiting" /\ req[r].route = "top-authors"
    /\ req[r].pending = {"meta"}
    /\ LET found == IF ok THEN FindAuthorDim(meta) ELSE <<>>
           q     == IF ok THEN [req[r] EXCEPT !.meta = meta] ELSE Failed(req[r], msg)
       IN  /\ req' = [req EXCEPT ![r] =
                        [q EXCEPT !.found = found, !.idx = 1, !.pending = {"dim"}]]
           /\ calls' = [calls EXCEPT ![r] = Append(@, AuthorDesc(DimsToTry(found)[1]))]
    /\ UNCHANGED <<traffic, now, ticks, cache, spark, pv, filt>>

\* The loop never breaks: every candidate is queried.
BreaksNever(rows) == FALSE

\* if (rows.length) break
Breaks(rows) == rows # <<>>

\* An empty result answered as an error.
AuthorsFinishStrict(r, q, rows) ==
    IF rows = <<>>
    THEN SendError(r, q, "No author dimension")
    ELSE StoreAndSend(r, q, KeyAuthors, [src |-> r, parts |-> {"dim"}, rows |-> rows],
                      TtlAuthors)

\* After the loop: cache.set(k, rows, 300); res.json(rows)
AuthorsFinish(r, q, rows) ==
    StoreAndSend(r, q, KeyAuthors, [src |-> r, parts |-> {"dim"}, rows |-> rows],
                 TtlAuthors)

\* The query by the candidate idx is answered: a failure counts as no rows
\* (catch (_) { rows = [] }); the loop ends at the first candidate with rows
\* and after the last one.
AuthorsDimReply(r, ok, names, msg) ==
    /\ r \in DOMAIN req
    /\ req[r].pc = "waiting" /\ req[r].route = "top-authors"
    /\ req[r].pending = {"dim"}
    /\ LET rows == IF ok THEN ShapeAuthors(names) ELSE <<>>
           dims == DimsToTry(req[r].found)
           real == ok /\ \E i \in 1..Len(names) : IsRealName(names[i])
           q    == [(IF ok THEN req[r] ELSE Failed(req[r], msg))
                      EXCEPT !.hits = IF real THEN @ + 1 ELSE @]
       IN  IF Breaks(rows) \/ req[r].idx >= Len(dims)
           THEN /\ AuthorsFinish(r, [q EXCEPT !.pending = {}], rows)
                /\ UNCHANGED calls
           ELSE /\ req' = [req EXCEPT ![r] = [q EXCEPT !.idx = @ + 1]]
                /\ calls' = [calls EXCEPT ![r] = Append(@, AuthorDesc(dims[req[r].idx + 1]))]
                /\ UNCHANGED cache
    /\ UNCHANGED <<traffic, now, ticks, spark, pv, filt>>

(***************************************************************************)
(* The clock and the specifications.                                       *)
(***************************************************************************)
\* The steps of the clock, in seconds.
ClockSteps == {5, 10, 15, 300, 305}

Tick(d) ==
    /\ ticks < traffic.ticks
    /\ now' = now + d
    /\ ticks' = ticks + 1
    /\ UNCHANGED <<traffic, cache, req, calls, spark, pv, filt>>

\* The routes whose handler makes one upstream call.
SingleCallRoutes == {"top-news", "state-news", "ga4-dims"}

\* What reaches the server: polls of one route, or a burst of identical
\* requests (one route, one :state).  The routes share nothing but the
\* cache, and no two of them share a key.
Polls == { [kind |-> "polls", route |-> rt, n |-> MaxPolls, ticks |-> MaxTicks] : rt \in Routes }

Bursts ==
    { [kind |-> "burst", route |-> rt, n |-> MaxReqs, ticks |-> MaxTicks] :
        rt \in SingleCallRoutes }

Traffic == Polls \cup Bursts

Init ==
    /\ traffic \in Traffic
    /\ now = 0
    /\ ticks = 0
    /\ cache = <<>>
    /\ req = [r \in 1..traffic.n |-> ReqInit]
    /\ calls = [r \in 1..traffic.n |-> <<>>]
    /\ spark = SparkIdle
    /\ pv = PvIdle
    /\ filt = FiltIdle

Next ==
    \/ \E r \in 1..MaxReqs, authed \in BOOLEAN : RealtimeStart(r, authed)
    \/ \E r \in 1..MaxReqs, c \in RtParts, ok \in BOOLEAN, msg \in FailMsgs :
          RealtimeReply(r, c, ok, msg)
    \/ \E r \in 1..MaxReqs, c \in RtParts : RealtimeLateReply(r, c)
    \/ \E r \in 1..MaxReqs, authed \in BOOLEAN : TopNewsStart(r, authed)
    \/ \E r \in 1..MaxReqs, ok \in BOOLEAN, msg \in FailMsgs : TopNewsReply(r, ok, msg)
    \/ \E r \in 1..MaxReqs, param \in StateParams, authed \in BOOLEAN :
          StateNewsStart(r, param, authed)
    \/ \E r \in 1..MaxReqs, ok \in BOOLEAN, msg \in FailMsgs : StateNewsReply(r, ok, msg)
    \/ \E r \in 1..MaxReqs, authed \in BOOLEAN : TopAuthorsStart(r, authed)
    \/ \E r \in 1..MaxReqs, ok \in BOOLEAN, meta \in MetaInputs, msg \in SwallowedMsgs :
          AuthorsMetaReply(r, ok, meta, msg)
    \/ \E r \in 1..MaxReqs, ok \in BOOLEAN, names \in AuthorRowsInputs, msg \in SwallowedMsgs :
          AuthorsDimReply(r, ok, names, msg)
    \/ \E r \in 1..MaxReqs, authed \in BOOLEAN : Ga4DimsStart(r, authed)
    \/ \E r \in 1..MaxReqs, ok \in BOOLEAN, meta \in MetaInputs, msg \in FailMsgs :
          Ga4DimsReply(r, ok, meta, msg)
    \/ \E d \in ClockSteps : Tick(d)
    \/ CheckData

Spec == Init /\ [][Next]_vars

\* The shaping of one realtime answer, row by row, with the server idle.
NoTraffic == [kind |-> "none", route |-> "none", n |-> 0, ticks |-> 0]

SparkInit ==
    /\ traffic = NoTraffic
    /\ now = 0
    /\ ticks = 0
    /\ cache = <<>>
    /\ req = <<>>
    /\ calls = <<>>
    /\ \E rows \in RtRowsInputs :
          spark = [pc |-> "rows", rows |-> rows, i |-> 0, sparkline |-> <<>>]
    /\ pv = PvIdle
    /\ filt = FiltIdle

SparkNext == SparkStart \/ SparkEach \/ SparkEnd

SparkSpec == SparkInit /\ [][SparkNext]_vars

\* The derivation of pageviewsPerMin from one set of answers, with the
\* server idle.
PvInit ==
    /\ traffic = NoTraffic
    /\ now = 0
    /\ ticks = 0
    /\ cache = <<>>
    /\ req = <<>>
    /\ calls = <<>>
    /\ spark = SparkIdle
    /\ filt = FiltIdle
    /\ \E rows \in RtRowsInputs, total \in TotalPvValues, minute \in MinuteOfDayValues :
          pv = [PvIdle EXCEPT !.pc = "rows", !.rows = rows, !.total = total,
                              !.minute = minute]

PvNext == PvFind \/ PvParse \/ PvDerive

PvSpec == PvInit /\ [][PvNext]_vars

\* The path filter of one state-news request applied to one page, with the
\* server idle.
FiltInit ==
    /\ traffic = NoTraffic
    /\ now = 0
    /\ ticks = 0
    /\ cache = <<>>
    /\ req = <<>>
    /\ calls = <<>>
    /\ spark = SparkIdle
    /\ pv = PvIdle
    /\ \E param \in FilterParams, path \in PagePaths :
          filt = [FiltIdle EXCEPT !.pc = "param", !.param = param, !.path = path]

FiltNext == FiltBuild \/ FiltMatch

FiltSpec == FiltInit /\ [][FiltNext]_vars

(***************************************************************************)
(* Properties.                                                             *)
(***************************************************************************)
Served == { r \in DOMAIN req : req[r].pc # "new" }

Answered == { r \in DOMAIN req : req[r].pc = "done" }

CachedRoutes == {"realtime", "top-news", "state-news", "top-authors"}

C1_Unauthenticated ==
    \A r \in Served :
        ~req[r].authed =>
            /\ req[r].pc = "done"
            /\ req[r].status = 401
            /\ req[r].body = [error |-> "Not authenticated", data |-> NoData]
            /\ req[r].nresp = 1
            /\ calls[r] = <<>>
            /\ req[r].ops = <<>>

\* A request without a session was answered 401 while an entry of the cache
\* stored before its arrival had not expired.
C1_Witness ==
    \E r \in Answered :
        /\ ~req[r].authed
        /\ req[r].status = 401
        /\ \E k \in DOMAIN cache : cache[k].at <= req[r].at /\ req[r].at < cache[k].t

\* C2: an authenticated request that arrives less than the TTL of its key
\* (10 s for rt and top10, 300 s for state_* and authors) after the set of the
\* entry it finds is answered 200 with the stored value and makes no upstream
\* call; one that arrives more than the TTL after the set makes the upstream
\* call(s) again and is never answered with the expired value.
C2_CacheTtl ==
    \A r \in Served :
        (req[r].authed /\ req[r].route \in CachedRoutes /\ req[r].saw.set) =>
            LET age == req[r].at - req[r].saw.at
                ttl == IF req[r].route \in {"realtime", "top-news"} THEN 10 ELSE 300
            IN  /\ age < ttl =>
                      /\ req[r].pc = "done"
                      /\ req[r].status = 200
                      /\ req[r].body = OkBody(req[r].saw.v)
                      /\ calls[r] = <<>>
                /\ age > ttl =>
                      /\ calls[r] # <<>>
                      /\ req[r].pc = "done" =>
                            /\ req[r].body.data # req[r].saw.v
                            /\ req[r].status = 200 => req[r].body.data.src = r

\* A state-news request arrived more than 300 s after the set of the entry of
\* its key, asked upstream again and was answered with its own rows.
C2_Witness ==
    \E r \in Answered :
        /\ req[r].authed /\ req[r].route = "state-news"
        /\ req[r].saw.set
        /\ req[r].at - req[r].saw.at > 300
        /\ calls[r] # <<>>
        /\ req[r].status = 200
        /\ req[r].body.data.src = r

\* Two requests are identical when they are for the same key of the cache.
SameKey(a, b) ==
    /\ req[a].route = req[b].route
    /\ ToLowerCase(req[a].state) = ToLowerCase(req[b].state)

\* A state-news request whose handler throws before its upstream call: its
\* lower-cased :state is a name inherited from Object.prototype.
ThrowsBeforeCall(r) ==
    /\ req[r].route = "state-news"
    /\ ToLowerCase(req[r].state) \in { <<"c", "o", "n", "s", "t", "r", "u", "c", "t", "o", "r">>,
                                       <<"_", "_", "p", "r", "o", "t", "o", "_", "_">> }

\* C3 as stated: among the identical authenticated requests that arrive
\* within one TTL window, at most two make upstream calls.
C3_AtMostTwo ==
    \A a \in Served :
        (req[a].authed /\ req[a].route \in CachedRoutes) =>
            LET ttl == IF req[a].route \in {"realtime", "top-news"} THEN 10 ELSE 300
            IN  Cardinality({ r \in Served :
                    /\ req[r].authed
                    /\ SameKey(a, r)
                    /\ req[a].at <= req[r].at /\ req[r].at < req[a].at + ttl
                    /\ calls[r] # <<>> }) <= 2

\* C3, amended: an authenticated request to a cached route makes upstream
\* calls exactly when it finds its key absent or expired on arrival, and then
\* makes one batch of them (1 for top-news and state-news, 4 for realtime, at
\* most 7 for top-authors); so identical requests that all arrive before the
\* first answer is stored make one batch each.  (A state-news handler that
\* throws before its call makes none.)
C3_OneBatchPerMiss ==
    \A r \in Served :
        (req[r].authed /\ req[r].route \in CachedRoutes) =>
            /\ calls[r] # <<>> <=>
                  /\ ~req[r].saw.set \/ req[r].saw.t < req[r].at
                  /\ ~ThrowsBeforeCall(r)
            /\ Len(calls[r]) <= (CASE req[r].route = "realtime" -> 4
                                   [] req[r].route = "top-authors" -> 7
                                   [] OTHER -> 1)

\* Three identical requests arrived at the same time and each of them made
\* its own upstream call.
C3_Witness ==
    /\ Cardinality(DOMAIN req) >= 3
    /\ \A r \in DOMAIN req :
          /\ req[r].pc # "new" /\ req[r].authed /\ req[r].route = "top-news"
          /\ req[r].at = req[1].at
          /\ Len(calls[r]) = 1

\* C4 as stated: on every route, a request during which an upstream call
\* failed is answered 500 with the upstream message.
C4_FailureIs500 ==
    \A r \in Answered :
        req[r].upErr # "" =>
            /\ req[r].status = 500
            /\ req[r].body = ErrBody(req[r].upErr)

\* C4, amended: on realtime, top-news, state-news and ga4-dims a request
\* during which an upstream call failed is answered 500 with the upstream
\* message; on top-authors the failure is swallowed and the answer is 200.
C4_FailureIs500ButAuthors ==
    \A r \in Answered :
        req[r].upErr # "" =>
            IF req[r].route = "top-authors"
            THEN req[r].status = 200 /\ req[r].body.error = ""
            ELSE req[r].status = 500 /\ req[r].body = ErrBody(req[r].upErr)

\* A top-authors request during which an upstream call failed was answered 200.
C4_Witness ==
    \E r \in Answered :
        /\ req[r].route = "top-authors"
        /\ req[r].upErr # ""
        /\ req[r].status = 200

\* C5: a realtime request that misses has issued all four queries before any
\* of them is answered; it is answered 200 only with all four answers in its
\* payload, and once one of the four fails it is answered 500, exactly once.
C5_AllOrError ==
    \A r \in Served :
        (req[r].route = "realtime" /\ req[r].authed) =>
            /\ req[r].nresp <= 1
            /\ calls[r] # <<>> =>
                  /\ Len(calls[r]) = 4
                  /\ { calls[r][i].name : i \in 1..4 } =
                        {"rtTotal", "rtMinutes", "todayStats", "monthStats"}
            /\ req[r].pc = "waiting" => req[r].upErr = ""
            /\ (req[r].status = 200 /\ req[r].body.data.src = r) =>
                  /\ req[r].body.data.parts =
                        {"rtTotal", "rtMinutes", "todayStats", "monthStats"}
                  /\ req[r].pending = {}
                  /\ req[r].upErr = ""
            /\ req[r].upErr # "" =>
                  /\ req[r].pc = "done"
                  /\ req[r].status = 500
                  /\ req[r].nresp = 1
                  /\ req[r].body.data = NoData

\* A realtime request was answered 500 once, all four of its queries having
\* been answered.
C5_Witness ==
    \E r \in Answered :
        /\ req[r].route = "realtime"
        /\ Len(calls[r]) = 4
        /\ req[r].upErr # ""
        /\ req[r].pending = {}
        /\ req[r].status = 500
        /\ req[r].nresp = 1

\* The dimension that the claim has the discovery find: the first dimension
\* named custom... whose apiName, uiName or description holds author, writer
\* or byline, whatever the case; <<>> when there is none.
HoldsAuthorWord(t) ==
    \E w \in { <<"a", "u", "t", "h", "o", "r">>, <<"w", "r", "i", "t", "e", "r">>,
               <<"b", "y", "l", "i", "n", "e">> } : Includes(ToLowerCase(t), w)

Discovered(meta) ==
    LET hit(i) == /\ StartsWith(meta[i].apiName, <<"c", "u", "s", "t", "o", "m">>)
                  /\ \/ HoldsAuthorWord(meta[i].apiName)
                     \/ HoldsAuthorWord(meta[i].uiName)
                     \/ HoldsAuthorWord(meta[i].description)
    IN  IF \E i \in 1..Len(meta) : hit(i)
        THEN meta[CHOOSE i \in 1..Len(meta) : hit(i) /\ \A j \in 1..(i - 1) : ~hit(j)].apiName
        ELSE <<>>

\* C6: a top-authors request that misses asks for the metadata, then for the
\* candidates in order and one at a time: the discovered dimension alone when
\* there is one, the hardcoded guesses in their order otherwise; no candidate
\* is asked for after one that gave a usable row, and the request is not
\* answered before that or before the last candidate.
C6_CandidatesInOrder ==
    \A r \in Served :
        (req[r].route = "top-authors" /\ req[r].authed /\ calls[r] # <<>>) =>
            LET dims == IF Discovered(req[r].meta) # <<>>
                        THEN << Discovered(req[r].meta) >>
                        ELSE Guesses
                n    == Len(calls[r]) - 1
            IN  /\ calls[r][1] = [api |-> "getMetadata", name |-> "metadata",
                                  dim |-> <<>>, filter |-> <<>>]
                /\ n <= Len(dims)
                /\ \A i \in 1..n :
                      calls[r][i + 1] = [api |-> "runReport", name |-> "authors",
                                         dim |-> dims[i], filter |-> <<>>]
                /\ Cardinality(req[r].pending) <= 1
                /\ req[r].hits <= 1
                /\ req[r].hits = 1 => req[r].pc = "done"
                /\ req[r].pc = "done" => (req[r].hits = 1 \/ n = Len(dims))

\* With no dimension discovered, the third guess gave the first usable row
\* and the request was answered after four calls.
C6_Witness ==
    \E r \in Answered :
        /\ req[r].route = "top-authors"
        /\ req[r].meta # <<>> /\ req[r].found = <<>>
        /\ Len(calls[r]) = 4
        /\ calls[r][4].dim = Guesses[3]
        /\ req[r].hits = 1
        /\ req[r].body.data.rows # <<>>

\* C7: when no author dimension is discovered and no candidate gives a usable
\* row, the top-authors request is answered 200 with an empty list.
C7_EmptyNotError ==
    \A r \in Answered :
        (/\ req[r].route = "top-authors" /\ req[r].authed /\ calls[r] # <<>>
         /\ Discovered(req[r].meta) = <<>>
         /\ req[r].hits = 0) =>
            /\ req[r].status = 200
            /\ req[r].body.error = ""
            /\ req[r].body.data.rows = <<>>

\* The metadata held no author dimension, each of the six guesses was asked
\* for and gave no usable row, no call failed, and the answer was 200 [].
C7_Witness ==
    \E r \in Answered :
        /\ req[r].route = "top-authors"
        /\ req[r].meta # <<>> /\ req[r].found = <<>>
        /\ req[r].upErr = ""
        /\ Len(calls[r]) = 7
        /\ req[r].hits = 0
        /\ req[r].status = 200
        /\ req[r].body.data.rows = <<>>

\* C8: while one request is served no upstream query is issued twice, and a
\* request answered 500 has issued its queries once only (four for realtime,
\* one for the other routes, none when no upstream call failed and the
\* handler itself threw).
C8_NoRetry ==
    \A r \in DOMAIN req :
        /\ \A i, j \in 1..Len(calls[r]) : i # j => calls[r][i] # calls[r][j]
        /\ (req[r].pc = "done" /\ req[r].status = 500) =>
              Len(calls[r]) = IF req[r].route = "realtime" THEN 4
                              ELSE IF req[r].upErr = "" THEN 0 ELSE 1

\* A top-news request whose upstream call failed was answered 500 after that
\* one call.
C8_Witness ==
    \E r \in Answered :
        /\ req[r].route = "top-news"
        /\ req[r].upErr # ""
        /\ req[r].status = 500
        /\ Len(calls[r]) = 1

\* C9 as stated: every key of the cache is rt, top10, authors or state_
\* followed by one of the state codes mp, cg, rj.
C9_FixedKeys ==
    \A k \in DOMAIN cache :
        k \in { <<"r", "t">>, <<"t", "o", "p", "1", "0">>,
                <<"a", "u", "t", "h", "o", "r", "s">>,
                <<"s", "t", "a", "t", "e", "_", "m", "p">>,
                <<"s", "t", "a", "t", "e", "_", "c", "g">>,
                <<"s", "t", "a", "t", "e", "_", "r", "j">> }

\* C9, amended: every key of the cache is rt, top10, authors or state_
\* followed by the lower-cased :state of an authenticated state-news request,
\* whatever that value is; the entries number at most three plus the distinct
\* lower-cased :state values requested.
C9_KeysFollowRequests ==
    /\ \A k \in DOMAIN cache :
          \/ k \in { <<"r", "t">>, <<"t", "o", "p", "1", "0">>,
                     <<"a", "u", "t", "h", "o", "r", "s">> }
          \/ \E r \in Answered :
                /\ req[r].authed /\ req[r].route = "state-news"
                /\ k = <<"s", "t", "a", "t", "e", "_">> \o ToLowerCase(req[r].state)
    /\ Cardinality(DOMAIN cache) <=
          3 + Cardinality({ ToLowerCase(req[r].state) :
                              r \in { x \in Served : req[x].route = "state-news" } })

\* Requests for the states MP and xx left the entries state_mp and state_xx.
C9_Witness ==
    /\ \E r \in Answered : req[r].state = <<"M", "P">> /\ req[r].status = 200
    /\ <<"s", "t", "a", "t", "e", "_", "m", "p">> \in DOMAIN cache
    /\ <<"s", "t", "a", "t", "e", "_", "x", "x">> \in DOMAIN cache

\* C11 as stated: pageviewsPerMin is the value of the minutesAgo = 0 bucket
\* whenever a row of the realtime answer stands for that minute, and is
\* round(totalPageviewsToday / max(minuteOfDay, 1)) when no row does; the
\* divisor is at least 1.
C11_PageviewsPerMin ==
    /\ pv.pc \in {"parsed", "done"} => pv.mins >= 1
    /\ pv.pc = "done" =>
          LET bucket == { i \in 1..Len(pv.rows) :
                            ~ParseInt(pv.rows[i].dim).nan /\ ParseInt(pv.rows[i].dim).n = 0 }
              total  == ParseIntOrZero(pv.total)
              d      == IF pv.minute > 1 THEN pv.minute ELSE 1
          IN  IF bucket # {}
              THEN \A i \in bucket : pv.out = ParseIntOrZero(pv.rows[i].val)
              ELSE /\ ~total.nan
                   /\ ~pv.out.nan
                   /\ 2 * d * pv.out.n <= 2 * total.n + d
                   /\ 2 * total.n + d < 2 * d * (pv.out.n + 1)

\* The realtime answer held the row of the current minute as minutesAgo 00
\* with 7 active users; at minute 60 of a day of 120 pageviews,
\* pageviewsPerMin was derived as 2, not 7.
C11_Witness ==
    /\ pv.pc = "done"
    /\ pv.rows = << [dim |-> <<"0", "0">>, val |-> <<"7">>] >>
    /\ pv.total = <<"1", "2", "0">>
    /\ pv.minute = 60
    /\ pv.lastMinRow = 0
    /\ pv.out = Num(2)

\* The prefixes that the claim gives a lower-cased state code.
ClaimedPrefixes(s) ==
    IF s = <<"m", "p">>
    THEN { <<"/", "m", "p", "/">>,
           <<"/", "s", "t", "a", "t", "e", "/", "m", "a", "d", "h", "y", "a", "-", "p", "r", "a", "d", "e", "s", "h", "/">> }
    ELSE IF s = <<"c", "g">>
    THEN { <<"/", "c", "g", "/">>,
           <<"/", "s", "t", "a", "t", "e", "/", "c", "h", "h", "a", "t", "t", "i", "s", "g", "a", "r", "h", "/">> }
    ELSE IF s = <<"r", "j">>
    THEN { <<"/", "r", "j", "/">>,
           <<"/", "s", "t", "a", "t", "e", "/", "r", "a", "j", "a", "s", "t", "h", "a", "n", "/">> }
    ELSE { <<"/">> \o s \o <<"/">> }

\* C12 as stated: for every state code the request is sent with a filter whose
\* values are exactly the prefixes of the lower-cased code (two for mp, cg and
\* rj, /s/ alone for any other code s), and a page passes it exactly when its
\* path holds one of them (the case ignored, as the API does); for mp the path
\* /state/madhya-pradesh/foo passes and /cg/foo does not.
C12_PathFilter ==
    filt.pc \in {"sent", "done", "thrown"} =>
        LET s == ToLowerCase(filt.param)
        IN  /\ filt.pc # "thrown"
            /\ { filt.filter[i] : i \in 1..Len(filt.filter) } = ClaimedPrefixes(s)
            /\ filt.pc = "done" =>
                  /\ filt.match <=>
                        \E p \in ClaimedPrefixes(s) : Includes(ToLowerCase(filt.path), p)
                  /\ (s = <<"m", "p">> /\ filt.path = <<"/", "s", "t", "a", "t", "e", "/", "m", "a", "d", "h", "y", "a", "-", "p", "r", "a", "d", "e", "s", "h", "/", "f", "o", "o">>)
                        => filt.match
                  /\ (s = <<"m", "p">> /\ filt.path = <<"/", "c", "g", "/", "f", "o", "o">>) => ~filt.match

\* The state code constructor: the handler threw before any request was sent.
C12_Witness ==
    /\ filt.pc = "thrown"
    /\ filt.param = <<"c", "o", "n", "s", "t", "r", "u", "c", "t", "o", "r">>
    /\ filt.filter = <<>>
    /\ filt.error = "paths.map is not a function"

\* A request found its key absent or expired on arrival.
Missed(r) == ~req[r].saw.set \/ req[r].saw.t < req[r].at

\* C13: a request answered 500 makes no cache.set, and the step that answers
\* 500 leaves the cache as it is; every entry is the payload of a request that
\* missed and was answered 200 with it; an answer from the cache is never an
\* error; an entry is created or replaced only by the 200 answer of a request
\* that missed, and removed only once its TTL has passed.
C13_ErrorsNotCached ==
    /\ [](/\ \A r \in Answered :
               /\ req[r].status = 500 =>
                     \A i \in 1..Len(req[r].ops) : req[r].ops[i] # "set"
               /\ req[r].ops = <<"has", "get">> =>
                     /\ req[r].status = 200
                     /\ req[r].body.error = ""
                     /\ req[r].body.data = req[r].saw.v
          /\ \A k \in DOMAIN cache :
               LET src == cache[k].v.src
               IN  /\ src \in Answered
                   /\ req[src].status = 200
                   /\ req[src].body = [error |-> "", data |-> cache[k].v]
                   /\ Missed(src))
    /\ [][/\ \A r \in DOMAIN req :
               (req[r].pc # "done" /\ req'[r].pc = "done" /\ req'[r].status = 500)
                  => cache' = cache
          /\ \A k \in DOMAIN cache' :
               (k \notin DOMAIN cache \/ cache'[k] # cache[k]) =>
                  \E r \in DOMAIN req :
                     /\ req[r].pc = "waiting" /\ req'[r].pc = "done"
                     /\ req'[r].status = 200
                     /\ req'[r].ops = <<"has", "set">>
                     /\ cache'[k].v = req'[r].body.data
                     /\ Missed(r)
          /\ \A k \in DOMAIN cache \ DOMAIN cache' :
               cache[k].t # 0 /\ cache[k].t < now]_vars

\* Two requests missed; the first was answered 200 and stored its payload,
\* the second failed upstream and was answered 500; a third request within
\* the TTL was answered 200 from the cache with the payload of the first.
C13_Witness ==
    \E a, b, c \in Answered :
        /\ req[a].route = "top-news" /\ req[b].route = "top-news"
        /\ req[a].status = 200 /\ req[a].ops = <<"has", "set">>
        /\ req[b].status = 500 /\ req[b].ops = <<"has">> /\ req[b].upErr # ""
        /\ req[c].ops = <<"has", "get">>
        /\ req[c].status = 200
        /\ req[c].body.data.src = a
        /\ req[c].at - req[c].saw.at < 10
        /\ <<"t", "o", "p", "1", "0">> \in DOMAIN cache
        /\ cache[<<"t", "o", "p", "1", "0">>].v.src = a

====
